---- MODULE Spec2Model ----
(***************************************************************************)
(* Composition model of curioswitch/cdktf-constructs.                      *)
(*                                                                         *)
(* A composition pass builds, under a fresh root scope, a tree of          *)
(* constructs and resource declarations.  Every constructor of the         *)
(* repository (GitHubRepository, GcpProject, Bootstrap, CurioStack,        *)
(* CurioStackService) is one action: it registers its nodes in source      *)
(* order and stops at the first error (a thrown Error, or a child id that  *)
(* is already taken in its parent).                                        *)
(*                                                                         *)
(* Strings are sequences of tokens: a token is either one separator        *)
(* character ("-", ".", "/", ":") or a maximal run of other characters,    *)
(* so that two strings are equal exactly when their token sequences are.   *)
(***************************************************************************)
EXTENDS Integers, Sequences, FiniteSets, TLC

VARIABLES
    tree,    \* tree[p]: path -> node, everything registered in pass p
    arrays,  \* heap of the caller's mutable dependsOn arrays (shared by reference)
    listed,  \* listed[a]: the handles the caller itself put into array a
    pass,    \* the pass (root scope) the caller is composing into
    calls    \* calls[p]: the constructor calls made in pass p, with their outcome

vars == <<tree, arrays, listed, pass, calls>>

(***************************************************************************)
(* Bounds of the model.                                                    *)
(***************************************************************************)
MaxPasses == 2
MaxServices == 2
MaxArrays == 1

Passes == 1..MaxPasses
ArrayIds == 1..MaxArrays

(***************************************************************************)
(* Optional values: None is undefined, <<x>> is a given x.                 *)
(***************************************************************************)
None == <<>>

Some(x) == <<x>>

\* x ?? d
Nullish(x, d) == IF x = None THEN d ELSE x[1]

(***************************************************************************)
(* Strings.                                                                *)
(***************************************************************************)
W(s) == <<s>>

\* `${a}-${b}`
Hy(a, b) == a \o <<"-">> \o b

\* s.includes(sep)
Includes(s, sep) == \E i \in DOMAIN s : s[i] = sep

RECURSIVE Split(_, _)
\* s.split(sep): the parts between the separators, at least one part
Split(s, sep) ==
    IF ~Includes(s, sep) THEN <<s>>
    ELSE LET i == CHOOSE j \in DOMAIN s :
                      s[j] = sep /\ \A k \in 1..(j - 1) : s[k] # sep
         IN  <<SubSeq(s, 1, i - 1)>> \o Split(SubSeq(s, i + 1, Len(s)), sep)

\* s.split(sep)[1]: undefined when s holds no separator
SplitSecond(s, sep) ==
    LET parts == Split(s, sep)
    IN  IF Len(parts) >= 2 THEN Some(parts[2]) ELSE None

\* s.replaceAll(a, b)
ReplaceAll(s, a, b) == [i \in DOMAIN s |-> IF s[i] = a THEN b ELSE s[i]]

(***************************************************************************)
(* Handles and configuration values.  A handle names a declared node by    *)
(* its pass and its path in the construct tree.  A configuration value     *)
(* carries the deferred references embedded in it.                         *)
(***************************************************************************)
H(p, path) == [pass |-> p, path |-> path]

NoHandle == [pass |-> 0, path |-> <<>>]

\* a literal piece of a string
LitPart(s) == [h |-> NoHandle, attr |-> "", lit |-> s]

\* the eventual value of attribute attr of the node h
RefPart(h, attr) == [h |-> h, attr |-> attr, lit |-> <<>>]

\* a template string: literal pieces and deferred references
T(parts) ==
    [t |-> "string", v |-> parts,
     refs |-> {parts[i].h : i \in {j \in DOMAIN parts : parts[j].h # NoHandle}}]

\* a plain string
Str(s) == T(<<LitPart(s)>>)

\* a deferred reference used as a whole value
R(h, attr) == T(<<RefPart(h, attr)>>)

\* any other literal: a boolean, a number, a nested object, a list
L(x) == [t |-> "literal", v |-> x, refs |-> {}]

\* a value that embeds the references hs somewhere inside a nested object
LRefs(x, hs) == [t |-> "literal", v |-> x, refs |-> hs]

\* JavaScript truthiness of an optional string value
TruthyStr(o) ==
    /\ o # None
    /\ \E i \in DOMAIN o[1].v : o[1].v[i].h # NoHandle \/ o[1].v[i].lit # <<>>

\* JavaScript truthiness of an optional boolean
TruthyBool(o) == o # None /\ o[1]

(***************************************************************************)
(* { ...defaults, ...override }: every key of the override replaces the    *)
(* default of that key as a whole.  Spreading undefined adds nothing.      *)
(***************************************************************************)
Spread(o) == IF o = None THEN <<>> ELSE o[1]

NestedKeys == {"rules", "conditions", "deploymentBranchPolicy"}

\* a merge that keeps the default's nested keys the override does not name
MergeDeep(defaults, override) ==
    [k \in DOMAIN defaults \cup DOMAIN override |->
        IF k \notin DOMAIN override THEN defaults[k]
        ELSE IF k \in DOMAIN defaults /\ k \in NestedKeys
        THEN L([j \in DOMAIN defaults[k].v \cup DOMAIN override[k].v |->
                   IF j \in DOMAIN override[k].v THEN override[k].v[j]
                   ELSE defaults[k].v[j]])
        ELSE override[k]]

Merge(defaults, override) ==
    [k \in DOMAIN defaults \cup DOMAIN override |->
        IF k \in DOMAIN override THEN override[k] ELSE defaults[k]]

(***************************************************************************)
(* Nodes and steps.  A constructor is a sequence of steps; a step          *)
(* registers one node, or throws.                                          *)
(***************************************************************************)
NoConfig == <<>>

Node(type, kind, config) == [type |-> type, kind |-> kind, config |-> config]

Step(path, type, kind, config) ==
    [path |-> path, node |-> Node(type, kind, config), error |-> "", push |-> <<>>]

\* new X(scope, id), X a Construct of this repository
ConstructStep(path, kind) == Step(path, "construct", kind, NoConfig)

\* new X(scope, id, config), X a Terraform resource
ResourceStep(path, kind, config) == Step(path, "resource", kind, config)

DataStep(path, kind, config) == Step(path, "data", kind, config)

OutputStep(path, config) == Step(path, "output", "TerraformOutput", config)

\* throw new Error(message)
ThrowStep(error) ==
    [path |-> <<>>, node |-> Node("throw", "Error", NoConfig), error |-> error,
     push |-> <<>>]

\* the step, followed by dependsOn.push(h)
WithPush(step, hs) == [step EXCEPT !.push = hs]

(***************************************************************************)
(* The explicit and implicit dependencies of a node.                       *)
(***************************************************************************)
DependsOn(node) ==
    IF "dependsOn" \in DOMAIN node.config
    THEN {node.config.dependsOn.v[i] : i \in DOMAIN node.config.dependsOn.v}
    ELSE {}

Refs(node) == UNION {node.config[k].refs : k \in DOMAIN node.config}

Deps(node) == DependsOn(node) \cup Refs(node)

(***************************************************************************)
(* Running a constructor in pass p: the steps are registered in order up   *)
(* to the first one that throws or whose path is already registered.       *)
(***************************************************************************)
StepFails(p, steps, i) ==
    \/ steps[i].node.type = "throw"
    \/ steps[i].path \in DOMAIN tree[p]
    \/ \E j \in 1..(i - 1) : steps[j].path = steps[i].path

\* the number of steps that run
Ran(p, steps) ==
    IF \E i \in DOMAIN steps : StepFails(p, steps, i)
    THEN (CHOOSE i \in DOMAIN steps :
              StepFails(p, steps, i) /\ \A j \in 1..(i - 1) : ~StepFails(p, steps, j)) - 1
    ELSE Len(steps)

Outcome(p, steps) ==
    LET n == Ran(p, steps)
    IN  IF n = Len(steps) THEN "ok"
        ELSE IF steps[n + 1].node.type = "throw" THEN steps[n + 1].error
        ELSE "DuplicateIdentifier"

Registered(p, steps) ==
    LET n == Ran(p, steps)
        new == {steps[i].path : i \in 1..n}
    IN  [q \in DOMAIN tree[p] \cup new |->
            IF q \in DOMAIN tree[p] THEN tree[p][q]
            ELSE steps[CHOOSE i \in 1..n : steps[i].path = q].node]

RECURSIVE Pushed(_, _)
\* what the steps that ran pushed onto the constructor's dependsOn array
Pushed(steps, n) ==
    IF n = 0 THEN <<>> ELSE Pushed(steps, n - 1) \o steps[n].push

(***************************************************************************)
(* GitHubRepository                                                        *)
(***************************************************************************)
RepositoryDefaults(config) ==
    [name |-> Str(config.name),
     autoInit |-> L(TRUE),
     vulnerabilityAlerts |-> L(TRUE),
     allowMergeCommit |-> L(FALSE),
     allowSquashMerge |-> L(TRUE),
     allowRebaseMerge |-> L(FALSE),
     squashMergeCommitTitle |-> Str(W("PR_TITLE")),
     squashMergeCommitMessage |-> Str(W("BLANK"))]

BypassActorsDefault ==
    L(<<[actorType |-> "RepositoryRole", actorId |-> 5, bypassMode |-> "always"]>>)

MainRulesetDefaults(repo) ==
    [repository |-> R(repo, "name"),
     name |-> Str(W("main")),
     enforcement |-> Str(W("active")),
     target |-> Str(W("branch")),
     conditions |-> L([refName |-> [include |-> <<"~DEFAULT_BRANCH">>, exclude |-> <<>>]]),
     bypassActors |-> BypassActorsDefault,
     rules |-> L([deletion |-> TRUE,
                  requiredLinearHistory |-> TRUE,
                  pullRequest |-> [requiredApprovingReviewCount |-> 1],
                  nonFastForward |-> TRUE])]

ReleaseRulesetDefaults(repo) ==
    [repository |-> R(repo, "name"),
     name |-> Str(W("release")),
     enforcement |-> Str(W("active")),
     target |-> Str(W("branch")),
     conditions |-> L([refName |-> [include |-> <<"refs/heads/release/*">>, exclude |-> <<>>]]),
     bypassActors |-> BypassActorsDefault,
     rules |-> L([creation |-> TRUE,
                  update |-> TRUE,
                  deletion |-> TRUE,
                  nonFastForward |-> TRUE])]

DevViewerEnvironmentDefaults(repo) ==
    [repository |-> R(repo, "name"),
     environment |-> Str(<<"dev", "-", "viewer">>)]

\* the defaults of the dev, prod-viewer and prod environments
EnvironmentDefaults(repo, environment) ==
    [repository |-> R(repo, "name"),
     environment |-> Str(environment),
     canAdminsBypass |-> L(TRUE),
     deploymentBranchPolicy |->
         L([protectedBranches |-> FALSE, customBranchPolicies |-> TRUE])]

\* a policy that names the repository where the environment's output goes
DeploymentPolicyOfRepository(repo, env, branchPattern) ==
    [repository |-> R(repo, "name"),
     environment |-> R(repo, "name"),
     branchPattern |-> Str(branchPattern)]

DeploymentPolicy(repo, env, branchPattern) ==
    [repository |-> R(repo, "name"),
     environment |-> R(env, "environment"),
     branchPattern |-> Str(branchPattern)]

GitHubRepositorySteps(p, scope, config) ==
    LET self == Append(scope, config.name)
        at(id) == Append(self, id)
        repo == H(p, at(W("this")))
    IN  <<ConstructStep(self, "GitHubRepository"),
          ResourceStep(at(W("this")), "Repository",
              Merge(RepositoryDefaults(config), Spread(config.repositoryConfig)))>>
        \o (IF TruthyStr(config.adminTeam)
            THEN <<ResourceStep(at(<<"admin", "-", "team">>), "TeamRepository",
                       [repository |-> R(repo, "name"),
                        teamId |-> config.adminTeam[1],
                        permission |-> Str(W("admin"))])>>
            ELSE <<>>)
        \o <<ResourceStep(at(<<"main", "-", "ruleset">>), "RepositoryRuleset",
                 Merge(MainRulesetDefaults(repo), Spread(config.mainRulesetConfig))),
             ResourceStep(at(<<"release", "-", "ruleset">>), "RepositoryRuleset",
                 Merge(ReleaseRulesetDefaults(repo), Spread(config.releaseRulesetConfig))),
             ResourceStep(at(<<"env", "-", "dev", "-", "viewer">>), "RepositoryEnvironment",
                 Merge(DevViewerEnvironmentDefaults(repo),
                       Spread(config.devViewerEnvironmentConfig))),
             ResourceStep(at(<<"env", "-", "dev">>), "RepositoryEnvironment",
                 Merge(EnvironmentDefaults(repo, W("dev")),
                       Spread(config.devEnvironmentConfig))),
             ResourceStep(at(<<"env", "-", "dev", "-", "policy">>),
                 "RepositoryEnvironmentDeploymentPolicy",
                 DeploymentPolicy(repo, H(p, at(<<"env", "-", "dev">>)), W("main"))),
             ResourceStep(at(<<"env", "-", "prod", "-", "viewer">>), "RepositoryEnvironment",
                 Merge(EnvironmentDefaults(repo, <<"prod", "-", "viewer">>),
                       Spread(config.prodViewerEnvironmentConfig))),
             ResourceStep(at(<<"env", "-", "prod", "-", "viewer", "-", "policy">>),
                 "RepositoryEnvironmentDeploymentPolicy",
                 DeploymentPolicy(repo, H(p, at(<<"env", "-", "prod", "-", "viewer">>)),
                                  <<"release", "/", "*">>)),
             ResourceStep(at(<<"env", "-", "prod">>), "RepositoryEnvironment",
                 Merge(EnvironmentDefaults(repo, W("prod")),
                       Spread(config.prodEnvironmentConfig))),
             ResourceStep(at(<<"env", "-", "prod", "-", "policy">>),
                 "RepositoryEnvironmentDeploymentPolicy",
                 DeploymentPolicy(repo, H(p, at(<<"env", "-", "prod">>)),
                                  <<"release", "/", "*">>))>>

(***************************************************************************)
(* The caller's inputs for a GitHubRepository.                             *)
(***************************************************************************)
RepositoryOverrides ==
    {None,
     Some([allowMergeCommit |-> L(TRUE), description |-> Str(W("docs"))]),
     Some([name |-> Str(W("renamed")), autoInit |-> L(FALSE)])}

RulesetOverrides ==
    {None,
     Some([rules |-> L([creation |-> TRUE])]),
     Some([name |-> Str(W("custom")),
           conditions |-> L([refName |-> [include |-> <<"refs/heads/dev">>]]),
           bypassActors |-> L(<<>>)])}

EnvironmentOverrides ==
    {None,
     Some([deploymentBranchPolicy |-> L([protectedBranches |-> TRUE]),
           waitTimer |-> L(5)])}

GitHubRepositoryConfigs ==
    [name : {W("acme")},
     adminTeam : {None, Some(Str(<<>>)), Some(Str(W("admins")))},
     repositoryConfig : RepositoryOverrides,
     mainRulesetConfig : RulesetOverrides,
     releaseRulesetConfig : RulesetOverrides,
     devEnvironmentConfig : EnvironmentOverrides,
     devViewerEnvironmentConfig : EnvironmentOverrides,
     prodEnvironmentConfig : EnvironmentOverrides,
     prodViewerEnvironmentConfig : EnvironmentOverrides]

(***************************************************************************)
(* GcpProject                                                              *)
(***************************************************************************)
\* the words joined by hyphens
Dash(ws) == [i \in 1..(2 * Len(ws) - 1) |-> IF i % 2 = 1 THEN ws[(i + 1) \div 2] ELSE "-"]

\* `principal://iam.googleapis.com/${pool.name}/subject/repo:${repo}:environment:${env}`
Principal(pool, repo, env) ==
    T(<<LitPart(<<"principal", ":", "/", "/", "iam", ".", "googleapis", ".", "com", "/">>),
        RefPart(pool, "name"),
        LitPart(<<"/", "subject", "/", "repo", ":">> \o repo
                \o <<":", "environment", ":">> \o env)>>)

\* dependsOn: xs, the list being copied when the resource is constructed
WithDependsOn(config, xs) ==
    IF xs = None THEN config
    ELSE [k \in DOMAIN config \cup {"dependsOn"} |->
             IF k = "dependsOn" THEN L(xs[1]) ELSE config[k]]

\* the Firebase project: config.googleBeta is its provider
FirebaseConfig(project) ==
    [project |-> R(project, "projectId"), provider |-> Str(<<"google", "-", "beta">>)]

\* the Terraform state bucket
TfstateConfig(project, config) ==
    [project |-> R(project, "projectId"),
     name |-> T(<<RefPart(project, "projectId"), LitPart(<<"-", "tfstate">>)>>),
     location |-> Str(Nullish(config.terraformStateLocation, W("US"))),
     storageClass |-> Str(W("STANDARD")),
     versioning |-> L([enabled |-> TRUE])]

\* a project service that names its project by the literal id
ProjectServiceByLiteral(project, service) ==
    [project |-> Str(project.path[Len(project.path) - 1]), service |-> Str(service)]

\* a bucket name exported as the token the bucket is declared with
TfstateBucketNameByReference(project, config) ==
    T(<<RefPart(project, "projectId"), LitPart(<<"-", "tfstate">>)>>)

\* this.tfstateBucketName
TfstateBucketName(project, config) == Str(Hy(config.projectId, W("tfstate")))

ProjectServiceConfig(project, service) ==
    [project |-> R(project, "projectId"), service |-> Str(service)]

GoogleApi(name) == <<name, ".", "googleapis", ".", "com">>

ProjectMember(project, role, member) ==
    [project |-> R(project, "projectId"), role |-> role, member |-> member]

GcpProjectSteps(p, scope, config, dependsOn) ==
    LET self == Append(scope, config.projectId)
        at(ws) == Append(self, Dash(ws))
        h(ws) == H(p, at(ws))
        project == h(<<"this">>)
        pool == h(<<"github", "id", "pool">>)
        admin == h(<<"terraform", "admin">>)
        viewer == h(<<"terraform", "viewer">>)
        orgName == Split(config.githubInfraRepo, "/")[1]
    IN  <<ConstructStep(self, "GcpProject"),
          ResourceStep(at(<<"this">>), "Project",
              WithDependsOn(
                  [projectId |-> Str(config.projectId),
                   name |-> Str(Nullish(config.displayName, config.projectId)),
                   orgId |-> Str(config.organizationId),
                   billingAccount |-> Str(config.billingAccountId),
                   labels |-> L([firebase |-> "enabled"])],
                  dependsOn)),
          ResourceStep(at(<<"firebase">>), "GoogleFirebaseProject", FirebaseConfig(project)),
          ResourceStep(at(<<"tfstate">>), "StorageBucket", TfstateConfig(project, config)),
          ResourceStep(at(<<"resourcemanager">>), "ProjectService",
              ProjectServiceConfig(project, GoogleApi("cloudresourcemanager"))),
          ResourceStep(at(<<"dns">>), "ProjectService",
              ProjectServiceConfig(project, GoogleApi("dns"))),
          ResourceStep(at(<<"iam">>), "ProjectService",
              ProjectServiceConfig(project, GoogleApi("iam"))),
          ResourceStep(at(<<"github", "id", "pool">>), "IamWorkloadIdentityPool",
              [project |-> R(project, "projectId"),
               workloadIdentityPoolId |-> Str(W("github")),
               dependsOn |-> L(<<h(<<"iam">>)>>)]),
          ResourceStep(at(<<"github", "id", "provider">>), "IamWorkloadIdentityPoolProvider",
              [project |-> R(project, "projectId"),
               workloadIdentityPoolProviderId |-> Str(W("github")),
               workloadIdentityPoolId |-> R(pool, "workloadIdentityPoolId"),
               attributeMapping |-> L([subject |-> "assertion.sub",
                                       actor |-> "assertion.actor",
                                       repository |-> "assertion.repository",
                                       repository_owner |-> "assertion.repository_owner"]),
               attributeCondition |->
                   Str(<<"assertion", ".", "repository_owner == '">> \o orgName \o <<"'">>),
               oidc |-> L([issuerUri |-> "https://token.actions.githubusercontent.com"])]),
          OutputStep(Append(self, Dash(<<"github", "identity", "provider">>)
                                  \o <<"-">> \o config.projectId),
              [staticId |-> L(TRUE), value |-> R(h(<<"github", "id", "provider">>), "name")]),
          ResourceStep(at(<<"kms", "service">>), "ProjectService",
              ProjectServiceConfig(project, GoogleApi("cloudkms"))),
          ResourceStep(at(<<"terraform", "keyring">>), "KmsKeyRing",
              [project |-> R(project, "projectId"),
               name |-> Str(W("terraform")),
               location |-> Str(W("global")),
               dependsOn |-> L(<<h(<<"kms", "service">>)>>)]),
          ResourceStep(at(<<"terraform", "key">>), "KmsCryptoKey",
              [keyRing |-> R(h(<<"terraform", "keyring">>), "id"),
               name |-> Str(W("secrets"))]),
          ResourceStep(at(<<"terraform", "admin">>), "ServiceAccount",
              [project |-> R(project, "projectId"),
               accountId |-> Str(Dash(<<"terraform", "admin">>))]),
          ResourceStep(at(<<"terraform", "admin", "owner">>), "ProjectIamMember",
              ProjectMember(project, Str(<<"roles", "/", "owner">>), R(admin, "member"))),
          ResourceStep(at(<<"terraform", "admin", "github", "actions">>),
              "ServiceAccountIamMember",
              [serviceAccountId |-> R(admin, "name"),
               role |-> Str(<<"roles", "/", "iam", ".", "serviceAccountTokenCreator">>),
               member |-> Principal(pool, config.githubInfraRepo, config.githubEnvironment)]),
          ResourceStep(at(<<"terraform", "viewer">>), "ServiceAccount",
              [project |-> R(project, "projectId"),
               accountId |-> Str(Dash(<<"terraform", "viewer">>))]),
          ResourceStep(at(<<"terraform", "viewer", "viewer">>), "ProjectIamMember",
              ProjectMember(project, Str(<<"roles", "/", "viewer">>), R(viewer, "member"))),
          ResourceStep(at(<<"terraform", "viewer", "serviceUser">>), "ProjectIamMember",
              ProjectMember(project,
                  Str(<<"roles", "/", "serviceusage", ".", "serviceUsageConsumer">>),
                  R(viewer, "member"))),
          ResourceStep(at(<<"terraform", "viewer", "key", "decrypter">>),
              "KmsCryptoKeyIamMember",
              [cryptoKeyId |-> R(h(<<"terraform", "key">>), "id"),
               role |-> Str(<<"roles", "/", "cloudkms", ".", "cryptoOperator">>),
               member |-> R(viewer, "member")]),
          ResourceStep(at(<<"terraform", "viewer", "key", "secretaccess">>),
              "ProjectIamMember",
              ProjectMember(project,
                  Str(<<"roles", "/", "secretmanager", ".", "secretAccessor">>),
                  R(viewer, "member"))),
          ResourceStep(at(<<"terraform", "viewer", "github", "actions">>),
              "ServiceAccountIamMember",
              [serviceAccountId |-> R(viewer, "name"),
               role |-> Str(<<"roles", "/", "iam", ".", "serviceAccountTokenCreator">>),
               member |-> Principal(pool, config.githubInfraRepo,
                                    Hy(config.githubEnvironment, W("viewer")))]),
          DataStep(at(<<"gcp", "testable", "permissions">>),
              "DataGoogleIamTestablePermissions",
              [fullResourceName |->
                   T(<<LitPart(<<"/", "/", "cloudresourcemanager", ".", "googleapis", ".",
                                 "com", "/", "projects", "/">>),
                       RefPart(project, "projectId")>>),
               stages |-> L(<<"GA", "BETA">>)]),
          ResourceStep(at(<<"iam", "policy", "viewer">>), "ProjectIamCustomRole",
              [roleId |-> Str(W("iamPolicyViewer")),
               title |-> Str(W("IAM Policy Viewer")),
               project |-> R(project, "projectId"),
               permissions |->
                   LRefs("val.name if endswith(val.name, \".getIamPolicy\")",
                         {h(<<"gcp", "testable", "permissions">>)})]),
          ResourceStep(at(<<"terraform", "viewer", "iam", "policy", "viewer">>),
              "ProjectIamMember",
              ProjectMember(project, R(h(<<"iam", "policy", "viewer">>), "name"),
                            R(viewer, "member"))),
          ResourceStep(at(<<"terraform", "viewer", "tfstate">>), "StorageBucketIamMember",
              [bucket |-> R(h(<<"tfstate">>), "name"),
               role |-> Str(<<"roles", "/", "storage", ".", "objectUser">>),
               member |-> R(viewer, "member")])>>

\* the public outputs of a GcpProject composed at self
GcpProjectOutputs(p, self) ==
    [project |-> H(p, Append(self, W("this"))),
     dnsService |-> H(p, Append(self, W("dns"))),
     githubIdentityPool |-> H(p, Append(self, Dash(<<"github", "id", "pool">>))),
     terraformAdminServiceAccount |-> H(p, Append(self, Dash(<<"terraform", "admin">>))),
     terraformViewerServiceAccount |-> H(p, Append(self, Dash(<<"terraform", "viewer">>))),
     terraformKeyring |-> H(p, Append(self, Dash(<<"terraform", "keyring">>))),
     terraformSecretsKey |-> H(p, Append(self, Dash(<<"terraform", "key">>)))]

(***************************************************************************)
(* The caller's inputs for a GcpProject.                                   *)
(***************************************************************************)
GcpProjectConfigs ==
    [projectId : {Dash(<<"acme", "dev">>), W("acme")},
     displayName : {None, Some(W("Acme"))},
     organizationId : {W("org1")},
     billingAccountId : {W("billing1")},
     githubInfraRepo : {<<"curioswitch", "/", "acme", "-", "infra">>},
     githubEnvironment : {W("dev"), W("prod")},
     terraformStateLocation : {None, Some(W("EU"))},
     dependsOn : {None} \cup {Some(a) : a \in ArrayIds}]

(***************************************************************************)
(* Bootstrap                                                               *)
(***************************************************************************)
\* JavaScript truthiness of an optional plain string
TruthyTokens(o) == o # None /\ o[1] # <<>>

BootstrapProjectConfig(config, role, githubEnvironment) ==
    [projectId |-> Hy(config.name, W(role)),
     displayName |-> None,
     organizationId |-> config.organizationId,
     billingAccountId |-> config.billingAccountId,
     githubInfraRepo |-> config.githubOrg \o <<"/">> \o Hy(config.name, W("infra")),
     githubEnvironment |-> W(githubEnvironment),
     terraformStateLocation |-> None,
     dependsOn |-> None]

BootstrapAppRepoConfig(config, team) ==
    [name |-> config.name,
     adminTeam |-> Some(R(team, "id")),
     repositoryConfig |-> config.appRepositoryConfig,
     mainRulesetConfig |-> None,
     releaseRulesetConfig |-> None,
     devEnvironmentConfig |-> None,
     devViewerEnvironmentConfig |-> None,
     prodEnvironmentConfig |-> None,
     prodViewerEnvironmentConfig |-> None]

BootstrapInfraRepoConfig(config, team) ==
    [name |-> Hy(config.name, W("infra")),
     adminTeam |-> Some(R(team, "id")),
     repositoryConfig |-> config.infraRepositoryConfig,
     mainRulesetConfig |-> None,
     releaseRulesetConfig |-> None,
     devEnvironmentConfig |-> None,
     devViewerEnvironmentConfig |-> None,
     prodEnvironmentConfig |->
         Some([reviewers |-> LRefs(<<[teams |-> <<"tonumber(github-admins.id)">>]>>, {team}),
               dependsOn |-> L(<<team>>)]),
     prodViewerEnvironmentConfig |-> None]

\* the four Actions variables of one repository
ActionsVariableSteps(p, self, repoName, repo, devProject, prodProject) ==
    LET var(ws, variableName, value) ==
            ResourceStep(Append(self, Dash(<<"gh", "var", repoName, "gcp", "project">> \o ws)),
                "ActionsVariable",
                [repository |-> R(repo, "name"),
                 variableName |-> Str(W(variableName)),
                 value |-> value])
    IN  <<var(<<"id", "dev">>, "GCP_PROJECT_ID_DEV", R(devProject, "projectId")),
          var(<<"id", "prod">>, "GCP_PROJECT_ID_PROD", R(prodProject, "projectId")),
          var(<<"number", "dev">>, "GCP_PROJECT_NUMBER_DEV", R(devProject, "number")),
          var(<<"number", "prod">>, "GCP_PROJECT_NUMBER_PROD", R(prodProject, "number"))>>

\* a pull request declared without dependsOn
CiPullRequestNoDependsOn(ciPRWorkflow, ciMainWorkflow) == <<>>

\* dependsOn: [ciPRWorkflow, ciMainWorkflow]
CiPullRequestDependsOn(ciPRWorkflow, ciMainWorkflow) == <<ciPRWorkflow, ciMainWorkflow>>

WorkflowSteps(p, self, infraRepo, appRepo, devProject, prodProject) ==
    LET at(ws) == Append(self, Dash(ws))
        h(ws) == H(p, at(ws))
        ciBranch == h(<<"ci", "branch">>)
    IN  ActionsVariableSteps(p, self, "infra", infraRepo, devProject, prodProject)
        \o ActionsVariableSteps(p, self, "app", appRepo, devProject, prodProject)
        \o <<ResourceStep(at(<<"ci", "branch", "suffix">>), "StringResource",
                 [length |-> L(16),
                  special |-> L(FALSE),
                  keepers |-> L([prWorkflow |-> "filebase64(templates/infraWorkflowPr.yaml)",
                                 mainWorkflow |-> "filebase64(templates/infraWorkflowMain.yaml)"])]),
             ResourceStep(at(<<"ci", "branch">>), "Branch",
                 [repository |-> R(infraRepo, "name"),
                  branch |-> T(<<LitPart(<<"tf", "-">>),
                                 RefPart(h(<<"ci", "branch", "suffix">>), "result")>>)]),
             ResourceStep(at(<<"infra", "ci", "pr">>), "RepositoryFile",
                 [repository |-> R(infraRepo, "name"),
                  branch |-> R(ciBranch, "branch"),
                  file |-> Str(<<".", "github", "/", "workflows", "/", "pr", ".", "yaml">>),
                  content |-> L("file(templates/infraWorkflowPr.yaml)")]),
             ResourceStep(at(<<"infra", "ci", "main">>), "RepositoryFile",
                 [repository |-> R(infraRepo, "name"),
                  branch |-> R(ciBranch, "branch"),
                  file |-> Str(<<".", "github", "/", "workflows", "/", "main", ".", "yaml">>),
                  content |-> L("file(templates/infraWorkflowMain.yaml)")]),
             ResourceStep(at(<<"infra", "ci", "pr", "apply">>), "RepositoryPullRequest",
                 [baseRepository |-> R(infraRepo, "name"),
                  baseRef |-> R(ciBranch, "sourceBranch"),
                  headRef |-> R(ciBranch, "branch"),
                  title |-> Str(W("Update CI workflows")),
                  body |-> Str(W("This is an automated change to update CI workflows to the latest.")),
                  dependsOn |-> L(CiPullRequestDependsOn(h(<<"infra", "ci", "pr">>),
                                                         h(<<"infra", "ci", "main">>)))])>>

DnsSteps(p, self, domain, dev, prod) ==
    LET at(ws) == Append(self, Dash(ws))
        h(ws) == H(p, at(ws))
    IN  <<ResourceStep(at(<<"alpha", "dns", "zone">>), "DnsManagedZone",
              [project |-> R(dev.project, "projectId"),
               name |-> Str(Hy(W("alpha"), ReplaceAll(domain, ".", "-"))),
               dnsName |-> Str(<<"alpha", ".">> \o domain \o <<".">>),
               dependsOn |-> L(<<dev.dnsService>>)]),
          ResourceStep(at(<<"prod", "dns", "zone">>), "DnsManagedZone",
              [project |-> R(prod.project, "projectId"),
               name |-> Str(ReplaceAll(domain, ".", "-")),
               dnsName |-> Str(domain \o <<".">>),
               dependsOn |-> L(<<prod.dnsService>>)]),
          ResourceStep(at(<<"prod", "alpha", "ns", "delegate">>), "DnsRecordSet",
              [project |-> R(prod.project, "projectId"),
               managedZone |-> R(h(<<"prod", "dns", "zone">>), "name"),
               name |-> Str(<<"alpha", ".">> \o domain \o <<".">>),
               type |-> Str(W("NS")),
               rrdatas |-> R(h(<<"alpha", "dns", "zone">>), "nameServers"),
               ttl |-> L(21600)])>>

BootstrapSteps(p, scope, config) ==
    LET self == Append(scope, config.name)
        sysadmin == BootstrapProjectConfig(config, "sysadmin", "prod")
        dev == BootstrapProjectConfig(config, "dev", "dev")
        prod == BootstrapProjectConfig(config, "prod", "prod")
        team == H(p, Append(self, Dash(<<"github", "admins">>)))
        app == BootstrapAppRepoConfig(config, team)
        infra == BootstrapInfraRepoConfig(config, team)
        devOut == GcpProjectOutputs(p, Append(self, dev.projectId))
        prodOut == GcpProjectOutputs(p, Append(self, prod.projectId))
        appRepo == H(p, self \o <<app.name, W("this")>>)
        infraRepo == H(p, self \o <<infra.name, W("this")>>)
    IN  <<ConstructStep(self, "Bootstrap")>>
        \o GcpProjectSteps(p, self, sysadmin, None)
        \o GcpProjectSteps(p, self, dev, None)
        \o GcpProjectSteps(p, self, prod, None)
        \o <<ResourceStep(team.path, "Team",
                 [name |-> Str(Hy(config.name, W("admins"))),
                  description |-> Str(<<"Administrators for the ">> \o config.name
                                      \o <<" project">>),
                  privacy |-> Str(W("closed"))])>>
        \o GitHubRepositorySteps(p, self, app)
        \o GitHubRepositorySteps(p, self, infra)
        \o (IF ~TruthyBool(config.disableGitHubWorkflows)
            THEN WorkflowSteps(p, self, infraRepo, appRepo, devOut.project, prodOut.project)
            ELSE <<>>)
        \o (IF TruthyTokens(config.domain)
            THEN DnsSteps(p, self, config.domain[1], devOut, prodOut)
            ELSE <<>>)

(***************************************************************************)
(* The caller's inputs for a Bootstrap.                                    *)
(***************************************************************************)
BootstrapNames ==
    {W("acme"), Dash(<<"github", "admins">>), Dash(<<"ci", "branch">>)}

BootstrapDomains ==
    {None, Some(<<>>), Some(<<"acme", ".", "dev">>), Some(<<"acme", "-", "dev">>)}

BootstrapConfigs ==
    [name : BootstrapNames,
     organizationId : {W("org1")},
     billingAccountId : {W("billing1")},
     githubOrg : {W("curioswitch")},
     domain : BootstrapDomains,
     appRepositoryConfig : {None, Some([visibility |-> Str(W("public"))])},
     infraRepositoryConfig : {None, Some([autoInit |-> L(FALSE)])},
     disableGitHubWorkflows : {None, Some(TRUE), Some(FALSE)}]

(***************************************************************************)
(* CurioStack                                                              *)
(***************************************************************************)
\* the message of the Error, with the quotes around the `-` left out
MissingEnvironmentError ==
    "project must include a - to determine the GitHub environment, or githubEnv must be provided"

\* `${x}` of a value that may be undefined
Interpolate(o) == IF o = None THEN W("undefined") ELSE o[1]

\* config.githubEnvironment ?? config.project.split("-")[1]
GithubEnv(config) ==
    IF config.githubEnvironment # None THEN config.githubEnvironment
    ELSE SplitSecond(config.project, "-")

\* a check that takes only an undefined githubEnvironment as missing
MissingEnvironmentUndefinedOnly(config) ==
    config.githubEnvironment = None /\ ~Includes(config.project, "-")

\* !config.githubEnvironment && !config.project.includes("-")
MissingEnvironment(config) ==
    ~TruthyTokens(config.githubEnvironment) /\ ~Includes(config.project, "-")

AppsPath(scope) == scope \o <<W("curiostack"), W("apps")>>

GithubEnvironmentIamMember(p, scope, config) ==
    Principal(H(p, Append(AppsPath(scope), Dash(<<"github", "id", "pool">>))),
              config.githubRepo, Interpolate(GithubEnv(config)))

AppsSteps(p, scope, config) ==
    LET self == AppsPath(scope)
        at(ws) == Append(self, Dash(ws))
        h(ws) == H(p, at(ws))
        member == GithubEnvironmentIamMember(p, scope, config)
        docker == h(<<"docker", "registry">>)
    IN  <<ConstructStep(self, "Apps"),
          ResourceStep(at(<<"service", "artifactregistry">>), "ProjectService",
              [service |-> Str(GoogleApi("artifactregistry"))]),
          ResourceStep(at(<<"service", "run">>), "ProjectService",
              [service |-> Str(GoogleApi("run"))]),
          ResourceStep(at(<<"service", "cloudtrace">>), "ProjectService",
              [service |-> Str(GoogleApi("cloudtrace"))]),
          ResourceStep(at(<<"service", "monitoring">>), "ProjectService",
              [service |-> Str(GoogleApi("monitoring"))]),
          ResourceStep(at(<<"cloudrun", "deployer">>), "ProjectIamCustomRole",
              [roleId |-> Str(W("cloudRunDeployer")),
               title |-> Str(W("Cloud Run Deployer")),
               permissions |-> L(<<"run.operations.get", "run.services.create",
                                   "run.services.get", "run.services.update">>)]),
          DataStep(at(<<"github", "id", "pool">>), "DataGoogleIamWorkloadIdentityPool",
              [workloadIdentityPoolId |-> Str(Nullish(config.githubIdentityPoolId, W("github"))),
               provider |-> Str(<<"google", "-", "beta">>)])>>
        \o (IF MissingEnvironment(config) THEN <<ThrowStep(MissingEnvironmentError)>> ELSE <<>>)
        \o <<ResourceStep(at(<<"docker", "registry">>), "ArtifactRegistryRepository",
                 [repositoryId |-> Str(W("docker")),
                  location |-> Str(config.location),
                  format |-> Str(W("DOCKER")),
                  dependsOn |-> L(<<h(<<"service", "artifactregistry">>)>>)]),
             ResourceStep(at(<<"github", "cloudrun", "deploy">>), "ProjectIamMember",
                 [project |-> Str(config.project),
                  role |-> R(h(<<"cloudrun", "deployer">>), "name"),
                  member |-> member]),
             ResourceStep(at(<<"docker", "member", "github">>),
                 "ArtifactRegistryRepositoryIamMember",
                 [repository |-> R(docker, "name"),
                  location |-> R(docker, "location"),
                  role |-> Str(<<"roles", "/", "artifactregistry", ".", "writer">>),
                  member |-> member]),
             ResourceStep(at(<<"ghcr", "repo">>), "ArtifactRegistryRepository",
                 [repositoryId |-> Str(W("ghcr")),
                  location |-> Str(config.location),
                  format |-> Str(W("DOCKER")),
                  mode |-> Str(W("REMOTE_REPOSITORY")),
                  remoteRepositoryConfig |->
                      L([dockerRepository |-> [customRepository |-> [uri |-> "https://ghcr.io"]]]),
                  dependsOn |-> L(<<h(<<"service", "artifactregistry">>)>>)])>>

IdentitySteps(p, scope, config) ==
    LET self == scope \o <<W("curiostack"), W("identity")>>
        at(ws) == Append(self, Dash(ws))
        h(ws) == H(p, at(ws))
    IN  <<ConstructStep(self, "Identity"),
          ResourceStep(at(<<"identitytoolkit">>), "ProjectService",
              [service |-> Str(GoogleApi("identitytoolkit"))]),
          ResourceStep(at(<<"identity", "platform">>), "IdentityPlatformConfig",
              [signIn |-> L([email |-> [enabled |-> TRUE]]),
               authorizedDomains |->
                   L(<<W("localhost"), config.domain,
                       config.project \o <<".", "web", ".", "app">>,
                       config.project \o <<".", "firebaseapp", ".", "com">>>>),
               dependsOn |-> L(<<h(<<"identitytoolkit">>)>>)]),
          ResourceStep(at(<<"firebaseauth", "config", "secret", "viewer">>),
              "ProjectIamCustomRole",
              [project |-> Str(config.project),
               title |-> Str(W("Firebase Auth Config Secret Viewer")),
               roleId |-> Str(W("firebaseauthConfigsSecretViewer")),
               permissions |-> L(<<"firebaseauth.configs.getSecret">>)]),
          ResourceStep(at(<<"terraform", "viewer", "firebase", "secret">>), "ProjectIamMember",
              [project |-> Str(config.project),
               role |-> R(h(<<"firebaseauth", "config", "secret", "viewer">>), "name"),
               member |->
                   Str(<<"serviceAccount", ":">>
                       \o Nullish(config.terraformViewerServiceAccountId,
                                  Dash(<<"terraform", "viewer">>))
                       \o <<"@">> \o config.project
                       \o <<".", "iam", ".", "gserviceaccount", ".", "com">>)])>>

\* The bucket of the OpenTelemetry collector configuration, which
\* CurioStackService reads as curiostack.otelBucket.
OtelBucketSteps(p, scope, config) ==
    <<ResourceStep(scope \o <<W("curiostack"), Dash(<<"otel", "bucket">>)>>, "StorageBucket",
          [name |-> Str(Hy(config.project, W("otel"))),
           location |-> Str(config.location)])>>

CurioStackSteps(p, scope, config) ==
    <<ConstructStep(Append(scope, W("curiostack")), "CurioStack")>>
    \o AppsSteps(p, scope, config)
    \o IdentitySteps(p, scope, config)
    \o OtelBucketSteps(p, scope, config)

\* the fields of a composed CurioStack
CurioStackObject(p, scope, config) ==
    [project |-> config.project,
     dockerRepository |-> H(p, Append(AppsPath(scope), Dash(<<"docker", "registry">>))),
     ghcrRepository |-> H(p, Append(AppsPath(scope), Dash(<<"ghcr", "repo">>))),
     githubEnvironmentIamMember |-> GithubEnvironmentIamMember(p, scope, config),
     runService |-> H(p, Append(AppsPath(scope), Dash(<<"service", "run">>)))]

\* curiostack.location and curiostack.otelBucket, which CurioStackService reads
CurioStackLocation(config) == config.location

CurioStackOtelBucket(p, scope) ==
    H(p, scope \o <<W("curiostack"), Dash(<<"otel", "bucket">>)>>)

(***************************************************************************)
(* CurioStackService                                                       *)
(***************************************************************************)
EnvVar(name, value) == [name |-> name, value |-> value, secret |-> None]

SecretEnvVar(s) == [name |-> s.name, value |-> None, secret |-> Some(s.secret \o <<":">> \o s.version)]

\* the sampler variable pushed whatever config.public is
TracesSamplerAlways(config) == <<EnvVar(W("OTEL_TRACES_SAMPLER"), Some(W("always_on")))>>

\* if (config.public) { env.push({name: "OTEL_TRACES_SAMPLER", value: "always_on"}) }
TracesSampler(config) ==
    IF TruthyBool(config.public)
    THEN <<EnvVar(W("OTEL_TRACES_SAMPLER"), Some(W("always_on")))>>
    ELSE <<>>

\* the env list of the app container
ServiceEnv(config, project) ==
    <<EnvVar(W("CONFIG_ENV"),
             IF config.environment # None THEN config.environment
             ELSE SplitSecond(project, "-")),
      EnvVar(W("GOOGLE_PROJECT"), Some(project)),
      EnvVar(W("OTEL_METRICS_EXPORTER"), Some(W("otlp"))),
      EnvVar(W("OTEL_TRACES_EXPORTER"), Some(W("otlp"))),
      EnvVar(W("OTEL_SERVICE_NAME"), Some(config.name))>>
    \o TracesSampler(config)
    \o <<EnvVar(W("LOGGING_JSON"), Some(W("true")))>>
    \o [i \in DOMAIN config.env |-> EnvVar(config.env[i].name, Some(config.env[i].value))]
    \o [i \in DOMAIN config.envSecrets |-> SecretEnvVar(config.envSecrets[i])]

\* `${repository.location}-docker.pkg.dev/${repository.project}/${repository.name}/${name}:${tag}`
ImageName(repository, config) ==
    T(<<RefPart(repository, "location"),
        LitPart(<<"-", "docker", ".", "pkg", ".", "dev", "/">>),
        RefPart(repository, "project"),
        LitPart(<<"/">>),
        RefPart(repository, "name"),
        LitPart(<<"/">> \o config.name \o <<":">> \o Nullish(config.imageTag, W("main")))>>)

\* lifecycle.ignoreChanges
IgnoreChanges(config) ==
    IF TruthyTokens(config.imageTag) THEN None
    ELSE Some(<<"client", "client_version", "template[0].revision",
                "template[0].containers[0].image">>)

\* a secret accessor whose member is read from the Cloud Run service
SecretAccessorOfService(p, self, serviceAccount, s) ==
    LET path == Append(self, Dash(<<"secret", "accessor">>) \o <<"-">> \o s.name)
    IN  WithPush(
            ResourceStep(path, "SecretManagerSecretIamMember",
                [secretId |-> Str(s.secret),
                 role |-> Str(<<"roles", "/", "secretmanager", ".", "secretAccessor">>),
                 member |-> R(H(p, Append(self, W("service"))), "member")]),
            <<H(p, path)>>)

SecretAccessorStep(p, self, serviceAccount, s) ==
    LET path == Append(self, Dash(<<"secret", "accessor">>) \o <<"-">> \o s.name)
    IN  WithPush(
            ResourceStep(path, "SecretManagerSecretIamMember",
                [secretId |-> Str(s.secret),
                 role |-> Str(<<"roles", "/", "secretmanager", ".", "secretAccessor">>),
                 member |-> R(serviceAccount, "member")]),
            <<H(p, path)>>)

\* the steps up to the Cloud Run service, with their pushes onto dependsOn
ServiceIamSteps(p, scope, config, stack, otelBucket) ==
    LET self == Append(scope, config.name)
        at(ws) == Append(self, Dash(ws))
        h(ws) == H(p, at(ws))
        account == h(<<"service", "account">>)
        member(ws, role) ==
            ResourceStep(at(ws), "ProjectIamMember",
                [project |-> Str(stack.project), role |-> Str(role),
                 member |-> R(account, "member")])
    IN  <<ConstructStep(self, "CurioStackService"),
          ResourceStep(at(<<"service", "account">>), "ServiceAccount",
              [accountId |-> Str(Hy(W("service"), config.name))]),
          member(<<"service", "account", "metrics">>,
                 <<"roles", "/", "monitoring", ".", "metricWriter">>),
          member(<<"service", "account", "traces">>,
                 <<"roles", "/", "cloudtrace", ".", "agent">>),
          member(<<"service", "account", "profiles">>,
                 <<"roles", "/", "cloudprofiler", ".", "agent">>),
          WithPush(
              ResourceStep(at(<<"cloudrun", "github">>), "ServiceAccountIamMember",
                  [serviceAccountId |-> R(account, "name"),
                   role |-> Str(<<"roles", "/", "iam", ".", "serviceAccountUser">>),
                   member |-> stack.githubEnvironmentIamMember]),
              <<stack.runService>>)>>
        \o [i \in DOMAIN config.envSecrets |->
               SecretAccessorStep(p, self, account, config.envSecrets[i])]
        \o <<WithPush(
                 ResourceStep(at(<<"otel", "bucket", "reader">>), "StorageBucketIamMember",
                     [bucket |-> R(otelBucket, "name"),
                      role |-> Str(<<"roles", "/", "storage", ".", "objectViewer">>),
                      member |-> R(account, "member")]),
                 <<h(<<"otel", "bucket", "reader">>)>>)>>

\* a dependsOn that holds the caller's entries only
ServiceDependsOnGivenOnly(given, pushed) == Nullish(given, <<>>)

\* const dependsOn = config.dependsOn ?? []: the caller's own array when one is given
ServiceDependsOn(given, pushed) == Nullish(given, <<>>) \o pushed

\* given: the content of config.dependsOn when the constructor is entered
CurioStackServiceSteps(p, scope, config, given, stack, location, otelBucket) ==
    LET self == Append(scope, config.name)
        at(ws) == Append(self, Dash(ws))
        h(ws) == H(p, at(ws))
        iam == ServiceIamSteps(p, scope, config, stack, otelBucket)
        run == h(<<"service">>)
    IN  iam
        \o <<ResourceStep(at(<<"service">>), "GoogleCloudRunV2Service",
                 [name |-> Str(config.name),
                  location |-> Str(location),
                  customAudiences |-> L(<<config.name>>),
                  ingress |-> Str(W("INGRESS_TRAFFIC_ALL")),
                  serviceAccount |-> R(h(<<"service", "account">>), "email"),
                  timeout |-> L(IF TruthyBool(config.websockets) THEN Some("3600s") ELSE None),
                  scaling |-> L(Nullish(config.scaling,
                                        [minInstanceCount |-> 0, maxInstanceCount |-> 1])),
                  image |-> ImageName(stack.dockerRepository, config),
                  env |-> L(ServiceEnv(config, stack.project)),
                  portName |-> Str(W(IF ~TruthyBool(config.websockets) THEN "h2c" ELSE "http1")),
                  otelImage |-> Str(Nullish(config.otelCollectorImage,
                                   W("otel/opentelemetry-collector-contrib:0.119.0"))),
                  otelVolumeBucket |-> R(otelBucket, "name"),
                  dependsOn |-> L(ServiceDependsOn(given, Pushed(iam, Len(iam)))),
                  ignoreChanges |-> L(IgnoreChanges(config))])>>
        \o (IF TruthyBool(config.public)
            THEN <<ResourceStep(at(<<"publicaccess">>), "CloudRunServiceIamMember",
                       [location |-> R(run, "location"),
                        service |-> R(run, "name"),
                        role |-> Str(<<"roles", "/", "run", ".", "invoker">>),
                        member |-> Str(W("allUsers"))])>>
            ELSE <<>>)

\* the public outputs of a CurioStackService composed at self
ServiceOutputs(p, self) ==
    [run |-> H(p, Append(self, W("service"))),
     serviceAccount |-> H(p, Append(self, Dash(<<"service", "account">>)))]

(***************************************************************************)
(* The caller's inputs for a CurioStack and its services.                  *)
(***************************************************************************)
StackProjects ==
    {W("acme"), Dash(<<"acme", "dev">>), Dash(<<"my", "project", "dev">>), <<"acme", "-">>}

StackEnvironments == {None, Some(<<>>), Some(W("dev"))}

CurioStackConfigs ==
    [project : StackProjects,
     location : {Dash(<<"us", "central1">>)},
     domain : {<<"acme", ".", "dev">>},
     githubRepo : {<<"curioswitch", "/", "acme">>},
     githubIdentityPoolId : {None},
     githubEnvironment : StackEnvironments,
     terraformViewerServiceAccountId : {None}]

Secret(name) == [name |-> W(name), secret |-> Hy(W("secret"), W(name)), version |-> W("1")]

ServiceBase ==
    [name |-> W("api"), imageTag |-> None, environment |-> None, public |-> None,
     env |-> <<>>, websockets |-> None, envSecrets |-> <<>>,
     otelCollectorImage |-> None, scaling |-> None, dependsOn |-> None]

\* the configurations of one service: each option varied on its own, and
\* dependsOn together with envSecrets
ServiceVariants(name) ==
    LET base == [ServiceBase EXCEPT !.name = name]
    IN  {[base EXCEPT !.public = x] : x \in {None, Some(TRUE), Some(FALSE)}}
        \cup {[base EXCEPT !.imageTag = x] : x \in {Some(<<>>), Some(W("v1"))}}
        \cup {[base EXCEPT !.environment = x] : x \in {Some(<<>>), Some(W("prod"))}}
        \cup {[base EXCEPT !.websockets = Some(TRUE), !.env = <<[name |-> W("A"), value |-> W("1")]>>,
                           !.otelCollectorImage = Some(W("otel:1")),
                           !.scaling = Some([minInstanceCount |-> 1, maxInstanceCount |-> 2])]}
        \cup {[base EXCEPT !.dependsOn = d, !.envSecrets = s] :
                  d \in {None} \cup {Some(a) : a \in ArrayIds},
                  s \in {<<>>, <<Secret("DB")>>, <<Secret("DB"), Secret("KEY")>>}}

ServiceNames == {W("api"), W("web"), W("curiostack")}

ServiceConfigs == UNION {ServiceVariants(name) : name \in ServiceNames}

(***************************************************************************)
(* Actions.  A top-level construct is composed into a fresh scope.         *)
(***************************************************************************)
Call(ctor, config, steps) ==
    [ctor |-> ctor, config |-> config, error |-> Outcome(pass, steps)]

Compose(ctor, config, steps) ==
    /\ tree' = [tree EXCEPT ![pass] = Registered(pass, steps)]
    /\ calls' = [calls EXCEPT ![pass] = Append(@, Call(ctor, config, steps))]

FreshScope == DOMAIN tree[pass] = {}

ComposeGitHubRepository ==
    /\ FreshScope
    /\ \E config \in GitHubRepositoryConfigs :
           Compose("GitHubRepository", config, GitHubRepositorySteps(pass, <<>>, config))
    /\ UNCHANGED <<arrays, listed, pass>>

Init ==
    /\ tree = [p \in Passes |-> <<>>]
    /\ arrays = [a \in ArrayIds |-> <<>>]
    /\ listed = [a \in ArrayIds |-> {}]
    /\ pass = 1
    /\ calls = [p \in Passes |-> <<>>]

\* the content of the caller's array when the constructor reads it
ArrayContent(o) == IF o = None THEN None ELSE Some(arrays[o[1]])

ComposeGcpProject ==
    /\ FreshScope
    /\ \E config \in GcpProjectConfigs :
           Compose("GcpProject", config,
                   GcpProjectSteps(pass, <<>>, config, ArrayContent(config.dependsOn)))
    /\ UNCHANGED <<arrays, listed, pass>>

ComposeBootstrapOf(configs) ==
    /\ FreshScope
    /\ \E config \in configs :
           Compose("Bootstrap", config, BootstrapSteps(pass, <<>>, config))
    /\ UNCHANGED <<arrays, listed, pass>>

ComposeBootstrap == ComposeBootstrapOf(BootstrapConfigs)

ComposeCurioStackOf(configs) ==
    /\ FreshScope
    /\ \E config \in configs :
           Compose("CurioStack", config, CurioStackSteps(pass, <<>>, config))
    /\ UNCHANGED <<arrays, listed, pass>>

ComposeCurioStack == ComposeCurioStackOf(CurioStackConfigs)

\* the pass holds a composed CurioStack
HasStack(p) ==
    /\ calls[p] # <<>>
    /\ calls[p][1].ctor = "CurioStack"
    /\ calls[p][1].error = "ok"

\* the caller lists in a dependsOn array only resources of the pass it composes
CallerListsOwnPass(o) ==
    IF o = None THEN TRUE ELSE \A h \in listed[o[1]] : h.pass = pass

ComposeCurioStackServiceOf(configs) ==
    /\ HasStack(pass)
    /\ Len(calls[pass]) <= MaxServices
    /\ \E config \in configs :
           LET stackConfig == calls[pass][1].config
               steps == CurioStackServiceSteps(pass, <<>>, config,
                            ArrayContent(config.dependsOn),
                            CurioStackObject(pass, <<>>, stackConfig),
                            CurioStackLocation(stackConfig),
                            CurioStackOtelBucket(pass, <<>>))
           IN  /\ CallerListsOwnPass(config.dependsOn)
               /\ Compose("CurioStackService", config, steps)
               /\ arrays' = IF config.dependsOn = None THEN arrays
                             ELSE [arrays EXCEPT ![config.dependsOn[1]] =
                                       @ \o Pushed(steps, Ran(pass, steps))]
    /\ UNCHANGED <<listed, pass>>

ComposeCurioStackService == ComposeCurioStackServiceOf(ServiceConfigs)

\* the outputs of the services composed in pass p
ServiceHandles(p) ==
    {ServiceOutputs(p, <<calls[p][i].config.name>>).run :
         i \in {j \in DOMAIN calls[p] :
                   calls[p][j].ctor = "CurioStackService" /\ calls[p][j].error = "ok"}}

\* the caller puts the Cloud Run service of a composed service into one of its arrays
CallerPush ==
    /\ HasStack(pass)
    /\ \E a \in ArrayIds, h \in ServiceHandles(pass) :
           /\ listed[a] = {}
           /\ arrays' = [arrays EXCEPT ![a] = Append(@, h)]
           /\ listed' = [listed EXCEPT ![a] = @ \cup {h}]
    /\ UNCHANGED <<tree, pass, calls>>

Next ==
    \/ ComposeGitHubRepository
    \/ ComposeGcpProject
    \/ ComposeBootstrap
    \/ ComposeCurioStack
    \/ ComposeCurioStackService
    \/ CallerPush

Spec == Init /\ [][Next]_vars

(***************************************************************************)
(* Several composition passes, each into a fresh scope, by a caller that   *)
(* keeps its dependsOn arrays from one pass to the next.                   *)
(***************************************************************************)
PassStackConfigs ==
    {c \in CurioStackConfigs :
        /\ c.project = Dash(<<"acme", "dev">>)
        /\ c.githubEnvironment \in {None, Some(W("dev"))}}

PassServiceConfigs ==
    {c \in ServiceVariants(W("api")) \cup ServiceVariants(W("web")) :
        /\ c = [ServiceBase EXCEPT !.name = c.name, !.dependsOn = c.dependsOn,
                                   !.envSecrets = c.envSecrets]
        /\ Len(c.envSecrets) <= 1}

PassCurioStack == ComposeCurioStackOf(PassStackConfigs)

PassCurioStackService == ComposeCurioStackServiceOf(PassServiceConfigs)

\* the caller starts the next pass, into a scope of its own
NewPass ==
    /\ pass < MaxPasses
    /\ calls[pass] # <<>>
    /\ pass' = pass + 1
    /\ UNCHANGED <<tree, arrays, listed, calls>>

NextPasses ==
    \/ PassCurioStack
    \/ PassCurioStackService
    \/ CallerPush
    \/ NewPass

SpecPasses == Init /\ [][NextPasses]_vars

(***************************************************************************)
(* The constructs on their own, each composed once into a fresh scope.     *)
(***************************************************************************)
NextConstructs ==
    \/ ComposeGitHubRepository
    \/ ComposeGcpProject
    \/ ComposeBootstrap
    \/ ComposeCurioStack

SpecConstructs == Init /\ [][NextConstructs]_vars

(***************************************************************************)
(* The compositions that make up a whole graph: a Bootstrap, or a          *)
(* CurioStack with its services, the services varied in what shapes the    *)
(* graph (dependsOn, envSecrets, public).                                  *)
(***************************************************************************)
GraphServiceConfigs ==
    PassServiceConfigs
    \cup {[ServiceBase EXCEPT !.name = name, !.public = Some(TRUE)] :
              name \in {W("api"), W("web")}}

GraphCurioStackService == ComposeCurioStackServiceOf(GraphServiceConfigs)

NextGraph ==
    \/ ComposeBootstrap
    \/ PassCurioStack
    \/ GraphCurioStackService
    \/ CallerPush

SpecGraph == Init /\ [][NextGraph]_vars

(***************************************************************************)
(* One CurioStack and its services: every option of the first service,     *)
(* also with the sampler variable among the caller's own env entries, and  *)
(* a second service that is public or shares a dependsOn array.            *)
(***************************************************************************)
CallerSampler == [name |-> W("OTEL_TRACES_SAMPLER"), value |-> W("always_on")]

OneStackServiceConfigs ==
    ServiceVariants(W("api"))
    \cup {[ServiceBase EXCEPT !.env = <<CallerSampler>>, !.public = x] :
              x \in {None, Some(TRUE)}}
    \cup {c \in ServiceVariants(W("web")) :
             /\ c = [ServiceBase EXCEPT !.name = c.name, !.public = c.public,
                                        !.dependsOn = c.dependsOn,
                                        !.envSecrets = c.envSecrets]
             /\ Len(c.envSecrets) <= 1}

OneStackCurioStackService == ComposeCurioStackServiceOf(OneStackServiceConfigs)

NextService ==
    \/ PassCurioStack
    \/ OneStackCurioStackService
    \/ CallerPush

SpecService == Init /\ [][NextService]_vars

(***************************************************************************)
(* Two Bootstraps, each composed into a scope of its own.                  *)
(***************************************************************************)
PairBootstrapConfigs ==
    [name : {W("acme"), Dash(<<"acme", "infra">>), Dash(<<"ci", "branch">>)},
     organizationId : {W("org1")},
     billingAccountId : {W("billing1")},
     githubOrg : {W("curioswitch")},
     domain : BootstrapDomains,
     appRepositoryConfig : {None},
     infraRepositoryConfig : {None},
     disableGitHubWorkflows : {None, Some(TRUE), Some(FALSE)}]

PairBootstrap == ComposeBootstrapOf(PairBootstrapConfigs)

NextBootstraps ==
    \/ PairBootstrap
    \/ NewPass

SpecBootstraps == Init /\ [][NextBootstraps]_vars

(***************************************************************************)
(* The dependency graph of a pass: an edge from a node to each node it     *)
(* references or lists in dependsOn.                                       *)
(***************************************************************************)
Nodes(p) == DOMAIN tree[p]

\* the nodes of pass p that q depends on
DepsIn(p, q) == {h.path : h \in {d \in Deps(tree[p][q]) : d.pass = p}} \cap Nodes(p)

RECURSIVE Dependents(_, _)
\* the nodes of pass p that depend, directly or through others, on a node of S
Dependents(p, S) ==
    LET next == S \cup {q \in Nodes(p) : DepsIn(p, q) \cap S # {}}
    IN  IF next = S THEN S ELSE Dependents(p, next)

RECURSIVE Peel(_, _)
\* what is left of S after taking away, again and again, the nodes that
\* depend on no node left: empty exactly when S holds no cycle
Peel(p, S) ==
    LET ready == {q \in S : DepsIn(p, q) \cap S = {}}
    IN  IF ready = {} THEN S ELSE Peel(p, S \ ready)

Acyclic(p) == Peel(p, Nodes(p)) = {}

\* the declarations directly under the construct at path g
Children(p, g) ==
    {q \in Nodes(p) : Len(q) = Len(g) + 1 /\ SubSeq(q, 1, Len(g)) = g}

ConstructsOf(p, kind) ==
    {q \in Nodes(p) : tree[p][q].type = "construct" /\ tree[p][q].kind = kind}

CallsOf(p, ctor) == {i \in DOMAIN calls[p] : calls[p][i].ctor = ctor}

(***************************************************************************)
(* C1                                                                      *)
(***************************************************************************)
\* the resources of a GitHubRepository that take an override, each with the
\* configuration field that holds its override
Overridable ==
    {[id |-> W("this"), field |-> "repositoryConfig"],
     [id |-> Dash(<<"main", "ruleset">>), field |-> "mainRulesetConfig"],
     [id |-> Dash(<<"release", "ruleset">>), field |-> "releaseRulesetConfig"],
     [id |-> Dash(<<"env", "dev">>), field |-> "devEnvironmentConfig"],
     [id |-> Dash(<<"env", "dev", "viewer">>), field |-> "devViewerEnvironmentConfig"],
     [id |-> Dash(<<"env", "prod">>), field |-> "prodEnvironmentConfig"],
     [id |-> Dash(<<"env", "prod", "viewer">>), field |-> "prodViewerEnvironmentConfig"]}

\* the declared resource at path q carries every key of the override as given
CarriesOverride(p, q, override) ==
    q \in Nodes(p) =>
        \A k \in DOMAIN Spread(override) :
            /\ k \in DOMAIN tree[p][q].config
            /\ tree[p][q].config[k] = override[1][k]

\* the repositories composed in pass p: on their own, or by a Bootstrap
RepositoriesOf(p) ==
    {[self |-> <<calls[p][i].config.name>>, config |-> calls[p][i].config] :
         i \in CallsOf(p, "GitHubRepository")}
    \cup UNION {LET c == calls[p][i].config
                    team == H(p, <<c.name, Dash(<<"github", "admins">>)>>)
                    app == BootstrapAppRepoConfig(c, team)
                    infra == BootstrapInfraRepoConfig(c, team)
                IN  {[self |-> <<c.name, app.name>>, config |-> app],
                     [self |-> <<c.name, infra.name>>, config |-> infra]} :
                i \in {j \in CallsOf(p, "Bootstrap") : calls[p][j].error = "ok"}}

\* C1: every resource a GitHubRepository declares with a caller override has,
\* for every top-level key of the override, exactly the caller's value; a
\* nested object of the caller replaces the default's nested object whole.
C1_OverrideWins ==
    \A p \in Passes : \A r \in RepositoriesOf(p) : \A o \in Overridable :
        CarriesOverride(p, Append(r.self, o.id), r.config[o.field])

\* a repository whose main ruleset overrides the nested rules and whose prod
\* environment overrides the nested deploymentBranchPolicy has been composed
C1_Witness ==
    \E r \in RepositoriesOf(1) :
        /\ r.config.mainRulesetConfig = Some([rules |-> L([creation |-> TRUE])])
        /\ r.config.prodEnvironmentConfig # None
        /\ Append(r.self, Dash(<<"main", "ruleset">>)) \in Nodes(1)
        /\ tree[1][Append(r.self, Dash(<<"main", "ruleset">>))].config.rules.v
               = [creation |-> TRUE]
        /\ tree[1][Append(r.self, Dash(<<"env", "prod">>))].config.deploymentBranchPolicy.v
               = [protectedBranches |-> TRUE]

(***************************************************************************)
(* C8                                                                      *)
(***************************************************************************)
\* the references embedded in the string values of a configuration
Embedded(config) ==
    UNION {{config[k].v[i].h : i \in {j \in DOMAIN config[k].v : config[k].v[j].h # NoHandle}} :
               k \in {j \in DOMAIN config : config[j].t = "string"}}

\* C8: every resource of a GcpProject has an edge to each declared resource
\* its configuration references, and every resource of the GcpProject other
\* than the Project depends, directly or through others, on the Project.
C8_ProjectFirst ==
    \A p \in Passes : \A g \in ConstructsOf(p, "GcpProject") :
        /\ \A q \in Children(p, g) :
               /\ Embedded(tree[p][q].config) \subseteq Deps(tree[p][q])
               /\ \A h \in Embedded(tree[p][q].config) : h.pass = p /\ h.path \in Nodes(p)
        /\ Children(p, g) \subseteq Dependents(p, {Append(g, W("this"))})

\* a GcpProject has been composed whole, and its resourcemanager service
\* depends on its Project
C8_Witness ==
    \E g \in ConstructsOf(1, "GcpProject") :
        /\ Cardinality(Children(1, g)) = 25
        /\ Append(g, Dash(<<"terraform", "viewer", "tfstate">>)) \in Children(1, g)
        /\ Append(g, W("resourcemanager"))
               \in Dependents(1, {Append(g, W("this"))}) \ {Append(g, W("this"))}

(***************************************************************************)
(* C2, C3                                                                  *)
(***************************************************************************)
NoHyphen(s) == \A i \in DOMAIN s : s[i] # "-"

\* C2: composing a CurioStack raises the missing-environment error exactly
\* when githubEnvironment is undefined or the empty string and the project
\* id holds no '-'.
C2_MissingEnvironment ==
    \A p \in Passes : \A i \in CallsOf(p, "CurioStack") :
        LET c == calls[p][i]
        IN  (c.error = MissingEnvironmentError)
                <=> (c.config.githubEnvironment \in {None, Some(<<>>)}
                        /\ NoHyphen(c.config.project))

\* a CurioStack without githubEnvironment, for a project id without '-',
\* has failed with the error
C2_Witness ==
    \E i \in CallsOf(1, "CurioStack") :
        /\ calls[1][i].config.githubEnvironment = None
        /\ calls[1][i].config.project = W("acme")
        /\ calls[1][i].error = MissingEnvironmentError

\* C2 as stated: the error is raised without githubEnvironment and '-', and
\* never when a githubEnvironment is given or the project id holds a '-'.
C2_AsStated ==
    \A p \in Passes : \A i \in CallsOf(p, "CurioStack") :
        LET c == calls[p][i]
        IN  /\ (c.config.githubEnvironment = None /\ NoHyphen(c.config.project))
                    => c.error = MissingEnvironmentError
            /\ (c.config.githubEnvironment # None \/ ~NoHyphen(c.config.project))
                    => c.error # MissingEnvironmentError

\* C3: a CurioStack that failed with the missing-environment error has
\* registered nothing in the scope it was composed into.
C3_NothingRegistered ==
    \A p \in Passes : \A i \in CallsOf(p, "CurioStack") :
        calls[p][i].error = MissingEnvironmentError => Nodes(p) = {}

(***************************************************************************)
(* C4                                                                      *)
(***************************************************************************)
Declarations(p) == {<<q, tree[p][q].type, tree[p][q].kind>> : q \in Nodes(p)}

\* the edges of pass p, each target named by its path and by how many passes
\* away from p it was declared
EdgesOf(p) ==
    UNION {{<<q, h.pass - p, h.path>> : h \in Deps(tree[p][q])} : q \in Nodes(p)}

\* passes p and r were composed by the same calls with the same config values
SameCalls(p, r) ==
    /\ calls[p] # <<>>
    /\ Len(calls[p]) = Len(calls[r])
    /\ \A i \in DOMAIN calls[p] :
           /\ calls[p][i].ctor = calls[r][i].ctor
           /\ calls[p][i].config = calls[r][i].config

\* C4: two passes composed by the same calls with identical config values,
\* the caller having put nothing into its dependsOn arrays, hold the same
\* declarations and the same edges.
C4_Deterministic ==
    (SameCalls(1, 2) /\ \A a \in ArrayIds : listed[a] = {})
        => /\ Declarations(1) = Declarations(2)
           /\ EdgesOf(1) = EdgesOf(2)

(***************************************************************************)
(* C5, C6                                                                  *)
(***************************************************************************)
\* C5: a dependsOn array of the caller holds only what the caller put in it.
C5_DependsOnUnchanged ==
    \A a \in ArrayIds : \A i \in DOMAIN arrays[a] : arrays[a][i] \in listed[a]

\* the services composed in pass p
ServicesOf(p) ==
    {calls[p][i].config : i \in {j \in CallsOf(p, "CurioStackService") :
                                     calls[p][j].error = "ok"}}

\* what the caller itself listed in the dependsOn of a service config
CallerListed(config) ==
    IF config.dependsOn = None THEN {} ELSE listed[config.dependsOn[1]]

\* C6: the Cloud Run service of a service B depends on a resource of another
\* service A only if B's config references it or the caller listed it in
\* B's dependsOn.
C6_NoCoincidentalOrder ==
    \A p \in Passes : \A A \in ServicesOf(p), B \in ServicesOf(p) :
        A.name # B.name =>
            LET run == tree[p][<<B.name, W("service")>>]
            IN  \A h \in Deps(run) :
                    (h.pass = p /\ h.path \in Children(p, <<A.name>>))
                        => h \in Refs(run) \cup CallerListed(B)

(***************************************************************************)
(* C7                                                                      *)
(***************************************************************************)
\* the steps of a Bootstrap that register a direct child of the Bootstrap
DirectChildSteps(steps) == {i \in DOMAIN steps : Len(steps[i].path) = 2}

\* C7: the ids of the direct children a Bootstrap declares are pairwise
\* distinct.
C7_DistinctIds ==
    \A p \in Passes : \A i \in CallsOf(p, "Bootstrap") :
        LET steps == BootstrapSteps(p, <<>>, calls[p][i].config)
        IN  \A j \in DirectChildSteps(steps), k \in DirectChildSteps(steps) :
                j # k => steps[j].path # steps[k].path

(***************************************************************************)
(* C9, C10                                                                 *)
(***************************************************************************)
\* C9: the dependency graph of every pass, references and dependsOn
\* together, holds no cycle.
C9_Acyclic == \A p \in Passes : Acyclic(p)

\* a CurioStack carries two services that share a dependsOn array, the
\* second one's Cloud Run service depending on the first one's
C9_Witness ==
    \E A \in ServicesOf(1), B \in ServicesOf(1) :
        /\ A.name # B.name
        /\ A.envSecrets # <<>>
        /\ A.dependsOn # None
        /\ H(1, <<A.name, W("service")>>)
               \in DependsOn(tree[1][<<B.name, W("service")>>])

\* C10: every edge of a pass points to a node declared in that pass.
C10_NoForeignEdge ==
    \A p \in Passes : \A q \in Nodes(p) : \A h \in Deps(tree[p][q]) :
        h.pass = p /\ h.path \in Nodes(p)

(***************************************************************************)
(* C11                                                                     *)
(***************************************************************************)
\* the part of s after its last '-'
LastSuffix(s) ==
    LET last == CHOOSE i \in DOMAIN s :
                    s[i] = "-" /\ \A j \in (i + 1)..Len(s) : s[j] # "-"
    IN  SubSeq(s, last + 1, Len(s))

\* C11: without githubEnvironment, the environment in the CurioStack's
\* githubEnvironmentIamMember is the part of the project id after its last
\* '-', and the CONFIG_ENV default of a service is that same part.
C11_SuffixAfterLastHyphen ==
    \A p \in Passes : \A i \in CallsOf(p, "CurioStack") :
        LET c == calls[p][i].config
            suffix == LastSuffix(c.project)
        IN  (calls[p][i].error = "ok" /\ c.githubEnvironment = None) =>
                /\ tree[p][Append(AppsPath(<<>>), Dash(<<"github", "cloudrun", "deploy">>))]
                       .config.member
                       = Principal(H(p, Append(AppsPath(<<>>), Dash(<<"github", "id", "pool">>))),
                                   c.githubRepo, suffix)
                /\ \A S \in ServicesOf(p) :
                       S.environment = None =>
                           tree[p][<<S.name, W("service")>>].config.env.v[1].value
                               = Some(suffix)

(***************************************************************************)
(* C12                                                                     *)
(***************************************************************************)
\* the children of the construct at g that are resources of the given kind
ResourcesOf(p, g, kind) ==
    {q \in Children(p, g) : tree[p][q].type = "resource" /\ tree[p][q].kind = kind}

\* the repository at path r gives the team the admin permission
TeamIsAdmin(p, r, team) ==
    /\ Append(r, Dash(<<"admin", "team">>)) \in Nodes(p)
    /\ tree[p][Append(r, Dash(<<"admin", "team">>))].config
           = [repository |-> R(H(p, Append(r, W("this"))), "name"),
              teamId |-> R(team, "id"),
              permission |-> Str(W("admin"))]

\* C12: a Bootstrap declares exactly the three GcpProjects <name>-sysadmin,
\* <name>-dev and <name>-prod, exactly the two repositories <name> and
\* <name>-infra, and exactly one team, named <name>-admins, that has the admin
\* permission on both repositories.
C12_BootstrapDeclares ==
    \A p \in Passes : \A i \in CallsOf(p, "Bootstrap") :
        LET name == calls[p][i].config.name
            self == <<name>>
            projects == {Hy(name, W(role)) : role \in {"sysadmin", "dev", "prod"}}
            repos == {name, Hy(name, W("infra"))}
            team == Append(self, Dash(<<"github", "admins">>))
        IN  /\ ConstructsOf(p, "GcpProject") = {Append(self, id) : id \in projects}
            /\ \A id \in projects :
                   /\ <<name, id, W("this")>> \in Nodes(p)
                   /\ tree[p][<<name, id, W("this")>>].config.projectId = Str(id)
            /\ ConstructsOf(p, "GitHubRepository") = {Append(self, id) : id \in repos}
            /\ \A id \in repos :
                   /\ <<name, id, W("this")>> \in Nodes(p)
                   /\ tree[p][<<name, id, W("this")>>].config.name = Str(id)
                   /\ TeamIsAdmin(p, <<name, id>>, H(p, team))
            /\ ResourcesOf(p, self, "Team") = {team}
            /\ tree[p][team].config.name = Str(Hy(name, W("admins")))

(***************************************************************************)
(* C13                                                                     *)
(***************************************************************************)
RECURSIVE Resolved(_, _, _)
\* the first n pieces of a string value once every reference in them to an
\* attribute given in the target's configuration is replaced by its value
Resolved(p, parts, n) ==
    IF n = 0 THEN <<>>
    ELSE Resolved(p, parts, n - 1)
         \o (IF parts[n].h = NoHandle THEN parts[n].lit
             ELSE LET value == tree[p][parts[n].h.path].config[parts[n].attr].v
                  IN  Resolved(p, value, Len(value)))

\* the GcpProjects composed in pass p: on their own, or by a Bootstrap
GcpProjectsOf(p) ==
    {[self |-> <<calls[p][i].config.projectId>>, config |-> calls[p][i].config] :
         i \in CallsOf(p, "GcpProject")}
    \cup UNION {LET c == calls[p][i].config
                IN  {[self |-> <<c.name, Hy(c.name, W(r.role))>>,
                      config |-> BootstrapProjectConfig(c, r.role, r.env)] :
                         r \in {[role |-> "sysadmin", env |-> "prod"],
                                [role |-> "dev", env |-> "dev"],
                                [role |-> "prod", env |-> "prod"]}} :
                i \in CallsOf(p, "Bootstrap")}

\* C13: the tfstateBucketName of a GcpProject holds no reference, and it is
\* <projectId>-tfstate, the name of the declared tfstate bucket once the
\* reference to the project id in that name is resolved.
C13_TfstateBucketName ==
    \A p \in Passes : \A g \in GcpProjectsOf(p) :
        LET exported == TfstateBucketName(H(p, Append(g.self, W("this"))), g.config)
            declared == tree[p][Append(g.self, W("tfstate"))].config.name
        IN  Append(g.self, W("tfstate")) \in Nodes(p) =>
                /\ exported.refs = {}
                /\ \A i \in DOMAIN exported.v : exported.v[i].h = NoHandle
                /\ Resolved(p, exported.v, Len(exported.v))
                       = Hy(g.config.projectId, W("tfstate"))
                /\ Resolved(p, exported.v, Len(exported.v))
                       = Resolved(p, declared.v, Len(declared.v))

\* a GcpProject inside a Bootstrap has declared its tfstate bucket, under a
\* name that refers to the Project
C13_Witness ==
    \E g \in GcpProjectsOf(1) :
        /\ Len(g.self) = 2
        /\ Append(g.self, W("tfstate")) \in Nodes(1)
        /\ H(1, Append(g.self, W("this")))
               \in tree[1][Append(g.self, W("tfstate"))].config.name.refs

(***************************************************************************)
(* C14                                                                     *)
(***************************************************************************)
WorkflowKinds ==
    {"ActionsVariable", "StringResource", "Branch", "RepositoryFile", "RepositoryPullRequest"}

\* the workflow resources declared in pass p
WorkflowNodes(p) == {q \in Nodes(p) : tree[p][q].kind \in WorkflowKinds}

\* pass p holds a Bootstrap with disableGitHubWorkflows set, pass r the
\* Bootstrap of the same config with it unset
SameButWorkflows(p, r) ==
    /\ calls[p] # <<>> /\ calls[r] # <<>>
    /\ calls[p][1].ctor = "Bootstrap" /\ calls[r][1].ctor = "Bootstrap"
    /\ calls[p][1].config.disableGitHubWorkflows = Some(TRUE)
    /\ calls[r][1].config.disableGitHubWorkflows \in {None, Some(FALSE)}
    /\ calls[p][1].config
           = [calls[r][1].config EXCEPT !.disableGitHubWorkflows = Some(TRUE)]

\* C14: with disableGitHubWorkflows set a Bootstrap declares no workflow
\* resource, and its other declarations and edges are those of the same
\* config with disableGitHubWorkflows unset.
C14_WorkflowsFrame ==
    \A p \in Passes, r \in Passes :
        SameButWorkflows(p, r) =>
            /\ WorkflowNodes(p) = {}
            /\ Declarations(p) = {d \in Declarations(r) : d[1] \notin WorkflowNodes(r)}
            /\ EdgesOf(p) = {e \in EdgesOf(r) : e[1] \notin WorkflowNodes(r)}

(***************************************************************************)
(* C15                                                                     *)
(***************************************************************************)
\* the values of attribute attr of the resources of the given kind in pass p
AttributesOf(p, kind, attr) ==
    {tree[p][q].config[attr] :
         q \in {n \in Nodes(p) : tree[p][n].type = "resource" /\ tree[p][n].kind = kind}}

\* passes p and r each hold a Bootstrap
TwoBootstraps(p, r) ==
    /\ p # r
    /\ calls[p] # <<>> /\ calls[r] # <<>>
    /\ calls[p][1].ctor = "Bootstrap" /\ calls[r][1].ctor = "Bootstrap"

\* C15: two Bootstraps with distinct domains declare DNS managed zones of
\* distinct names, and two Bootstraps with distinct names declare disjoint
\* repository names, project ids and team names.
C15_CollisionResistant ==
    \A p \in Passes, r \in Passes :
        TwoBootstraps(p, r) =>
            LET c == calls[p][1].config
                d == calls[r][1].config
            IN  /\ (TruthyTokens(c.domain) /\ TruthyTokens(d.domain) /\ c.domain # d.domain)
                       => AttributesOf(p, "DnsManagedZone", "name")
                              \cap AttributesOf(r, "DnsManagedZone", "name") = {}
                /\ c.name # d.name
                       => /\ AttributesOf(p, "Repository", "name")
                                 \cap AttributesOf(r, "Repository", "name") = {}
                          /\ AttributesOf(p, "Project", "projectId")
                                 \cap AttributesOf(r, "Project", "projectId") = {}
                          /\ AttributesOf(p, "Team", "name")
                                 \cap AttributesOf(r, "Team", "name") = {}

(***************************************************************************)
(* C16                                                                     *)
(***************************************************************************)
\* the Cloud Run service of the composed service c of pass p
RunOf(p, c) == tree[p][<<c.name, W("service")>>]

\* the service c of pass p declares the allUsers invoker on its Cloud Run service
PublicAccess(p, c) ==
    \E q \in Children(p, <<c.name>>) :
        /\ tree[p][q].kind = "CloudRunServiceIamMember"
        /\ tree[p][q].config.member = Str(W("allUsers"))
        /\ tree[p][q].config.role = Str(<<"roles", "/", "run", ".", "invoker">>)
        /\ tree[p][q].config.service = R(H(p, <<c.name, W("service")>>), "name")

\* the app container of the service c of pass p samples every trace
AlwaysSampled(p, c) ==
    \E i \in DOMAIN RunOf(p, c).config.env.v :
        RunOf(p, c).config.env.v[i]
            = EnvVar(W("OTEL_TRACES_SAMPLER"), Some(W("always_on")))

\* config.env carries the sampler variable
CallerSampled(c) == \E i \in DOMAIN c.env : c.env[i] = CallerSampler

\* C16: a composed CurioStackService declares the allUsers roles/run.invoker
\* member on its Cloud Run service if and only if config.public is truthy,
\* and its env holds OTEL_TRACES_SAMPLER=always_on if and only if
\* config.public is truthy or config.env carries that variable.
C16_PublicExactly ==
    \A p \in Passes : \A c \in ServicesOf(p) :
        /\ PublicAccess(p, c) <=> TruthyBool(c.public)
        /\ AlwaysSampled(p, c) <=> (TruthyBool(c.public) \/ CallerSampled(c))

\* a public service, and a service that is not public whose caller set the
\* sampler variable, in one CurioStack
C16_Witness ==
    \E c \in ServicesOf(1), d \in ServicesOf(1) :
        /\ c.public = Some(TRUE) /\ PublicAccess(1, c) /\ AlwaysSampled(1, c)
        /\ d.public = None /\ CallerSampled(d)
        /\ ~PublicAccess(1, d) /\ AlwaysSampled(1, d)

\* C16 as stated: OTEL_TRACES_SAMPLER=always_on is in the env exactly when
\* the allUsers member is declared, that is exactly when config.public is
\* truthy.
C16_AsStated ==
    \A p \in Passes : \A c \in ServicesOf(p) :
        /\ PublicAccess(p, c) <=> TruthyBool(c.public)
        /\ AlwaysSampled(p, c) <=> PublicAccess(p, c)

(***************************************************************************)
(* C17                                                                     *)
(***************************************************************************)
\* the tag of an image name: what follows the ':' of its last literal piece
ImageTagOf(image) ==
    LET l == image.v[Len(image.v)].lit
        colon == CHOOSE i \in DOMAIN l : l[i] = ":"
    IN  SubSeq(l, colon + 1, Len(l))

\* the Cloud Run service ignores changes to the image of its app container
IgnoresImage(run) ==
    /\ run.config.ignoreChanges.v # None
    /\ \E i \in DOMAIN run.config.ignoreChanges.v[1] :
           run.config.ignoreChanges.v[1][i] = "template[0].containers[0].image"

\* C17: the image of a composed service has the tag 'main' when imageTag is
\* not provided; for every imageTag it has the tag 'main' exactly when the
\* Cloud Run service ignores changes to its image, and the caller's tag
\* exactly when no changes are ignored.
C17_TagAgrees ==
    \A p \in Passes : \A c \in ServicesOf(p) :
        LET run == RunOf(p, c)
            tag == ImageTagOf(run.config.image)
        IN  /\ c.imageTag = None => tag = W("main")
            /\ tag = W("main") <=> IgnoresImage(run)
            /\ (c.imageTag # None /\ tag = c.imageTag[1]) <=> ~IgnoresImage(run)

(***************************************************************************)
(* C18                                                                     *)
(***************************************************************************)
\* the secret accessors declared by the service c of pass p
SecretAccessorsOf(p, c) ==
    {q \in Children(p, <<c.name>>) : tree[p][q].kind = "SecretManagerSecretIamMember"}

\* what the array config.dependsOn of the composed service c of pass p held
\* when c was composed: the entries ahead of the pushes of c itself, the
\* last of which is its otel-bucket reader
SuppliedTo(p, c) ==
    IF c.dependsOn = None THEN {}
    ELSE LET array == arrays[c.dependsOn[1]]
             reader == H(p, <<c.name, Dash(<<"otel", "bucket", "reader">>)>>)
             last == CHOOSE i \in DOMAIN array : array[i] = reader
         IN  {array[i] : i \in 1..(last - Len(c.envSecrets) - 2)}

\* C18: the Cloud Run service of a composed CurioStackService depends on
\* every entry of the dependsOn the caller supplied, on the Cloud Run API
\* ProjectService of the CurioStack, on its own service account, on the
\* otel-bucket reader, and on the secret accessors, of which there is
\* exactly one per entry of envSecrets, granting the service account the
\* accessor role on that entry's secret.
C18_RunAfter ==
    \A p \in Passes : \A c \in ServicesOf(p) :
        LET run == RunOf(p, c)
            at(ws) == <<c.name, Dash(ws)>>
            account == H(p, at(<<"service", "account">>))
            accessor(s) == Append(<<c.name>>, Dash(<<"secret", "accessor">>) \o <<"-">> \o s.name)
        IN  /\ SuppliedTo(p, c) \subseteq Deps(run)
            /\ CurioStackObject(p, <<>>, calls[p][1].config).runService \in Deps(run)
            /\ account \in Deps(run)
            /\ at(<<"service", "account">>) \in Nodes(p)
            /\ H(p, at(<<"otel", "bucket", "reader">>)) \in Deps(run)
            /\ at(<<"otel", "bucket", "reader">>) \in Nodes(p)
            /\ Cardinality(SecretAccessorsOf(p, c)) = Len(c.envSecrets)
            /\ \A i \in DOMAIN c.envSecrets :
                   LET q == accessor(c.envSecrets[i])
                   IN  /\ q \in SecretAccessorsOf(p, c)
                       /\ H(p, q) \in Deps(run)
                       /\ tree[p][q].config.secretId = Str(c.envSecrets[i].secret)
                       /\ tree[p][q].config.member = R(account, "member")
                       /\ tree[p][q].config.role
                              = Str(<<"roles", "/", "secretmanager", ".", "secretAccessor">>)

\* a service with two envSecrets composed with a dependsOn array in which the
\* caller had put the Cloud Run service of another service
C18_Witness ==
    \E c \in ServicesOf(1), d \in ServicesOf(1) :
        /\ c.name # d.name
        /\ Len(c.envSecrets) = 2
        /\ c.dependsOn # None
        /\ H(1, <<d.name, W("service")>>) \in listed[c.dependsOn[1]] \cap SuppliedTo(1, c)
        /\ H(1, <<d.name, W("service")>>) \in DependsOn(RunOf(1, c))

(***************************************************************************)
(* C19, C20                                                                *)
(***************************************************************************)
\* the resources of the given kind declared in pass p
OfKind(p, kind) ==
    {q \in Nodes(p) : tree[p][q].type = "resource" /\ tree[p][q].kind = kind}

\* every order of creation that respects the edges of pass p creates every
\* node of S before q
After(p, q, S) == \A n \in S : n # q /\ q \in Dependents(p, {n})

\* the Bootstraps of pass p that are composed in full, workflows included
WithWorkflows(p) ==
    {calls[p][i].config :
         i \in {j \in CallsOf(p, "Bootstrap") :
                   /\ calls[p][j].error = "ok"
                   /\ ~TruthyBool(calls[p][j].config.disableGitHubWorkflows)}}

\* the workflow files committed in pass p under the given file name
WorkflowFile(p, file) ==
    {q \in OfKind(p, "RepositoryFile") :
         tree[p][q].config.file = Str(<<".", "github", "/", "workflows", "/">> \o file)}

\* C19: a Bootstrap composed with workflows declares the pull request, the
\* two workflow files pr.yaml and main.yaml, the CI branch and the branch
\* suffix; the pull request comes after both files, each file after the
\* branch, and the branch after the infra repository and the suffix, in
\* every order of creation that respects the edges.
C19_WorkflowOrder ==
    \A p \in Passes :
        /\ \A c \in WithWorkflows(p) :
               /\ Cardinality(OfKind(p, "RepositoryPullRequest")) = 1
               /\ Cardinality(WorkflowFile(p, <<"pr", ".", "yaml">>)) = 1
               /\ Cardinality(WorkflowFile(p, <<"main", ".", "yaml">>)) = 1
               /\ Cardinality(OfKind(p, "RepositoryFile")) = 2
               /\ Cardinality(OfKind(p, "Branch")) = 1
               /\ Cardinality(OfKind(p, "StringResource")) = 1
               /\ <<c.name, Hy(c.name, W("infra")), W("this")>> \in OfKind(p, "Repository")
               /\ \A b \in OfKind(p, "Branch") :
                      After(p, b, {<<c.name, Hy(c.name, W("infra")), W("this")>>})
        /\ \A q \in OfKind(p, "RepositoryPullRequest") :
               After(p, q, OfKind(p, "RepositoryFile"))
        /\ \A f \in OfKind(p, "RepositoryFile") : After(p, f, OfKind(p, "Branch"))
        /\ \A b \in OfKind(p, "Branch") : After(p, b, OfKind(p, "StringResource"))

\* a Bootstrap composed with workflows, whose pull request depends on the
\* file pr.yaml
C19_Witness ==
    /\ WithWorkflows(1) # {}
    /\ \E q \in OfKind(1, "RepositoryPullRequest"), f \in WorkflowFile(1, <<"pr", ".", "yaml">>) :
           H(1, f) \in DependsOn(tree[1][q])

\* C20: in a Bootstrap composed with workflows, every order of creation that
\* respects the edges creates the main ruleset of the infra repository
\* before the pull request.
C20_RulesetBeforePullRequest ==
    \A p \in Passes : \A c \in WithWorkflows(p) :
        \A q \in OfKind(p, "RepositoryPullRequest") :
            After(p, q, {<<c.name, Hy(c.name, W("infra")), <<"main", "-", "ruleset">>>>})

(***************************************************************************)
(* C21                                                                     *)
(***************************************************************************)
\* the DNS resources of pass p
DnsNodes(p) == OfKind(p, "DnsManagedZone") \cup OfKind(p, "DnsRecordSet")

\* C21: a Bootstrap declares DNS resources if and only if config.domain is
\* set, and then the alpha zone comes after the Cloud DNS ProjectService of
\* the dev project, the prod zone after that of the prod project, and the NS
\* delegation record after both zones; the record lives in the prod zone, has
\* the DNS name of the alpha zone, alpha.<domain>., and carries the alpha
\* zone's name servers.
C21_DnsExactly ==
    \A p \in Passes : \A i \in CallsOf(p, "Bootstrap") :
        LET c == calls[p][i].config
            at(ws) == <<c.name, Dash(ws)>>
            alpha == at(<<"alpha", "dns", "zone">>)
            prod == at(<<"prod", "dns", "zone">>)
            record == at(<<"prod", "alpha", "ns", "delegate">>)
            dns(env) == <<c.name, Hy(c.name, W(env)), W("dns")>>
        IN  /\ DnsNodes(p) # {} <=> TruthyTokens(c.domain)
            /\ TruthyTokens(c.domain) =>
                   /\ DnsNodes(p) = {alpha, prod, record}
                   /\ OfKind(p, "DnsRecordSet") = {record}
                   /\ dns("dev") \in OfKind(p, "ProjectService")
                   /\ dns("prod") \in OfKind(p, "ProjectService")
                   /\ After(p, alpha, {dns("dev")})
                   /\ After(p, prod, {dns("prod")})
                   /\ After(p, record, {alpha, prod})
                   /\ tree[p][record].config.managedZone = R(H(p, prod), "name")
                   /\ tree[p][record].config.name = tree[p][alpha].config.dnsName
                   /\ tree[p][record].config.name
                          = Str(<<"alpha", ".">> \o c.domain[1] \o <<".">>)
                   /\ tree[p][record].config.rrdatas = R(H(p, alpha), "nameServers")

(***************************************************************************)
(* C22                                                                     *)
(***************************************************************************)
\* the environments a GitHubRepository declares: id, name, and the branch
\* pattern of the deployment policy where there is one
RepositoryEnvironments ==
    {[id |-> Dash(<<"env", "dev", "viewer">>), name |-> Dash(<<"dev", "viewer">>),
      pattern |-> None],
     [id |-> Dash(<<"env", "dev">>), name |-> W("dev"), pattern |-> Some(W("main"))],
     [id |-> Dash(<<"env", "prod", "viewer">>), name |-> Dash(<<"prod", "viewer">>),
      pattern |-> Some(<<"release", "/", "*">>)],
     [id |-> Dash(<<"env", "prod">>), name |-> W("prod"),
      pattern |-> Some(<<"release", "/", "*">>)]}

EnvironmentOf(member) ==
    LET l == member.v[Len(member.v)].lit
        colon == CHOOSE i \in DOMAIN l :
                     l[i] = ":" /\ \A j \in (i + 1)..Len(l) : l[j] # ":"
    IN  SubSeq(l, colon + 1, Len(l))

\* C23: for every service composed on a composed CurioStack, the environment
\* in the githubEnvironmentIamMember the service binds and the value of its
\* CONFIG_ENV variable are both defined and not the empty string.
C23_EnvironmentsDefined ==
    \A p \in Passes : \A c \in ServicesOf(p) :
        LET member == tree[p][<<c.name, Dash(<<"cloudrun", "github">>)>>].config.member
            env == RunOf(p, c).config.env.v
        IN  /\ EnvironmentOf(member) # <<>>
            /\ \E i \in DOMAIN env :
                   /\ env[i].name = W("CONFIG_ENV")
                   /\ env[i].value # None
                   /\ env[i].value[1] # <<>>

(***************************************************************************)
(* C24                                                                     *)
(***************************************************************************)
\* the resources of the GcpProjects of the Bootstrap at g whose member is a
\* workload-identity principal
PrincipalsOf(p, g) ==
    {q \in Nodes(p) :
        /\ Len(q) = 3 /\ q[1] = g
        /\ tree[p][q].type = "resource"
        /\ "member" \in DOMAIN tree[p][q].config
        /\ tree[p][q].config.member.v[1].lit # <<>>
        /\ tree[p][q].config.member.v[1].lit[1] = "principal"}

\* C24: every workload-identity principal bound in the GcpProjects of a
\* Bootstrap names the repository <githubOrg>/<name of the infra repository
\* the Bootstrap declares> and an environment that the infra repository
\* declares.
C24_PrincipalsDeclared ==
    \A p \in Passes : \A i \in CallsOf(p, "Bootstrap") :
        LET c == calls[p][i].config
            infra == <<c.name, Hy(c.name, W("infra"))>>
        IN  \A q \in PrincipalsOf(p, c.name) :
                LET member == tree[p][q].config.member
                    l == member.v[Len(member.v)].lit
                    env == EnvironmentOf(member)
                    repo == SubSeq(l, 6, Len(l) - Len(env) - 3)
                IN  /\ Append(infra, W("this")) \in OfKind(p, "Repository")
                    /\ tree[p][Append(infra, W("this"))].config.name.v
                           = <<LitPart(SubSeq(repo, Len(c.githubOrg) + 2, Len(repo)))>>
                    /\ SubSeq(repo, 1, Len(c.githubOrg) + 1) = c.githubOrg \o <<"/">>
                    /\ \E e \in ResourcesOf(p, infra, "RepositoryEnvironment") :
                           tree[p][e].config.environment = Str(env)

====
